---- MODULE Spec2Model ----
(***************************************************************************)
(* Shipment lifecycle engine of the shipment tracker service:              *)
(* ShipmentService.CreateShipment, ShipmentService.AssignDriver and the    *)
(* generic transition helper ShipmentService.updateStatusAndRecord, run by *)
(* concurrent HTTP request goroutines against the shipments table, the     *)
(* state_transitions table and the NATS event bus; telemetry intake        *)
(* (mqtt Client.processBinStatus), the dispatch engine                     *)
(* (NotificationService) and the route optimizer (RouteService) of the     *)
(* backend, against the bins and drivers tables.                           *)
(***************************************************************************)
EXTENDS Integers, Sequences, FiniteSets, Bags, TLC

(* ---------------------------- bounds ---------------------------------- *)
\* requests that may be in flight at the same time (one goroutine each)
MaxInFlight == 2
\* shipment ids that uuid.New() can hand out
MaxShipments == 1
\* rows state_transitions may hold before concurrent requests stop being issued
MaxLog == 3
\* the same, for requests served one at a time (a whole lifecycle has 9 rows, and
\* there is room for one more)
MaxLogSeq == 10
\* telemetry goroutines (report handlers and the dispatches they start) at a time
MaxHandlers == 2
\* dispatch engine goroutines at a time before a new call is made
MaxCalls == 2
\* bin ids in one OptimizeRoute request
MaxStops == 3
\* legs of a route in an answer of the routing service
MaxLegs == 2

ShipmentIds == 1..MaxShipments

NULL == "null"

(* -------------------- models: ShipmentStatus, Shipment ---------------- *)
StatusCreated == "created"
StatusPriceConfirmed == "price_confirmed"
StatusDriverAssigned == "driver_assigned"
StatusPickupStarted == "pickup_started"
StatusInTransit == "in_transit"
StatusDelivered == "delivered"
StatusCompleted == "completed"
StatusCancelled == "cancelled"
StatusDisputed == "disputed"
StatusResolved == "resolved"

ShipmentStatus ==
    { StatusCreated, StatusPriceConfirmed, StatusDriverAssigned, StatusPickupStarted,
      StatusInTransit, StatusDelivered, StatusCompleted, StatusCancelled,
      StatusDisputed, StatusResolved }

\* mutant of ValidTransitions: a resolved dispute may be disputed again
ValidTransitions_Reopen ==
    (StatusCreated :> <<StatusPriceConfirmed, StatusCancelled>>) @@
    (StatusPriceConfirmed :> <<StatusDriverAssigned, StatusCancelled>>) @@
    (StatusDriverAssigned :> <<StatusPickupStarted, StatusDisputed, StatusCancelled>>) @@
    (StatusPickupStarted :> <<StatusInTransit, StatusDisputed>>) @@
    (StatusInTransit :> <<StatusDelivered, StatusDisputed>>) @@
    (StatusDelivered :> <<StatusCompleted, StatusDisputed>>) @@
    (StatusDisputed :> <<StatusResolved>>) @@
    (StatusResolved :> <<StatusCompleted, StatusDisputed>>)

\* the map literal: a key for eight of the ten statuses, each with its slice
ValidTransitions ==
    (StatusCreated :> <<StatusPriceConfirmed, StatusCancelled>>) @@
    (StatusPriceConfirmed :> <<StatusDriverAssigned, StatusCancelled>>) @@
    (StatusDriverAssigned :> <<StatusPickupStarted, StatusDisputed, StatusCancelled>>) @@
    (StatusPickupStarted :> <<StatusInTransit, StatusDisputed>>) @@
    (StatusInTransit :> <<StatusDelivered, StatusDisputed>>) @@
    (StatusDelivered :> <<StatusCompleted, StatusDisputed>>) @@
    (StatusDisputed :> <<StatusResolved>>) @@
    (StatusResolved :> <<StatusCompleted>>)

\* mutant of CanTransitionTo: membership by transitive reachability
RECURSIVE ReachableWithin(_, _, _)
ReachableWithin(s, t, n) ==
    /\ n > 0
    /\ s \in DOMAIN ValidTransitions
    /\ \E i \in 1..Len(ValidTransitions[s]) :
          \/ ValidTransitions[s][i] = t
          \/ ReachableWithin(ValidTransitions[s][i], t, n - 1)

CanTransitionTo_Transitive(status, newStatus) ==
    ReachableWithin(status, newStatus, Cardinality(ShipmentStatus))

\* mutant of CanTransitionTo: a status the map has a key for may go anywhere
CanTransitionTo_KeyOnly(status, newStatus) == status \in DOMAIN ValidTransitions

\* Shipment.CanTransitionTo: key lookup, then a linear scan of the slice
CanTransitionTo(status, newStatus) ==
    IF status \notin DOMAIN ValidTransitions
    THEN FALSE
    ELSE \E i \in 1..Len(ValidTransitions[status]) :
            ValidTransitions[status][i] = newStatus

(* --------------------------- nats/topics.go --------------------------- *)
TopicShipmentCreated == "shipment.created"
TopicPriceConfirmed == "shipment.price.confirmed"
TopicDriverAssigned == "shipment.driver.assigned"
TopicPickupStarted == "shipment.pickup.started"
TopicInTransit == "shipment.in.transit"
TopicDelivered == "shipment.delivered"
TopicCompleted == "shipment.completed"
TopicCancelled == "shipment.cancelled"
TopicDisputed == "shipment.disputed"
TopicResolved == "shipment.resolved"
TopicFallback == "shipment.status.changed"

\* ShipmentService.getTopicForStatus: the switch has no case for
\* StatusDriverAssigned (nor StatusCreated); both take the default branch
getTopicForStatus(status) ==
    CASE status = StatusPriceConfirmed -> TopicPriceConfirmed
      [] status = StatusPickupStarted -> TopicPickupStarted
      [] status = StatusInTransit -> TopicInTransit
      [] status = StatusDelivered -> TopicDelivered
      [] status = StatusCompleted -> TopicCompleted
      [] status = StatusCancelled -> TopicCancelled
      [] status = StatusDisputed -> TopicDisputed
      [] status = StatusResolved -> TopicResolved
      [] OTHER -> TopicFallback

(* ------------------------------ inputs -------------------------------- *)
Users == {"u1"}
Drivers == {"d1"}
\* (triggeredBy, role) pairs offered to the generic transition path
Actors == { [id |-> "u1", role |-> "user"] }

\* device ids that have a row in bins, and one that has none
RegisteredDevices == {"b1", "b2", "b3"}
UnknownDevices == {"b0"}
Devices == RegisteredDevices \cup UnknownDevices

\* the columns of bins that no operation modelled here writes. Positions are degrees
\* of longitude on the equator (latitude 0 throughout), so that great-circle
\* distance orders pairs of points as the difference of their longitudes does.
\* location_name is nullable: b2 was registered without one
BinDirectory ==
    [b \in RegisteredDevices |->
        CASE b = "b1" -> [latitude |-> 0, longitude |-> 2, locationName |-> "depot"]
          [] b = "b2" -> [latitude |-> 0, longitude |-> 6, locationName |-> NULL]
          [] OTHER -> [latitude |-> 0, longitude |-> 3, locationName |-> "market"]]

\* the devices whose reports the telemetry runs follow
ReportingDevices == {"b1", "b2", "b0"}

\* fill_level values the sensors report: out of range on both sides, around the
\* threshold, and the levels 85, 95, 97
ReportLevels == {0 - 1, 0, 85, 89, 90, 95, 97, 100, 101}

DriverIds == {"d1", "d2"}
\* longitudes a driver's position may have
DriverLongitudes == {1, 5}
\* a row of drivers: is_available, and latitude/longitude, which are nullable
\* (location is the set of known positions: empty or one longitude)
DriverRows ==
    [isAvailable : BOOLEAN, location : {{}} \cup {{k} : k \in DriverLongitudes}]

\* the drivers table the telemetry runs are checked against
DefaultDrivers ==
    [d \in DriverIds |->
        IF d = "d1" THEN [isAvailable |-> TRUE, location |-> {5}]
                    ELSE [isAvailable |-> TRUE, location |-> {1}]]

\* positions a driver may ask a route from, and the strategies it may name
StartLongitudes == {0, 4}
Strategies == {"distance", "fill_level", "shortest"}
\* fill levels the bins hold when a route is asked for
RouteLevels == {85, 95}

(* ------------------------------- state -------------------------------- *)
VARIABLES
    shipments,    \* shipments table: id -> row, NoShipment when there is no such row
    transitions,  \* state_transitions table: shipment id -> rows in insert order
    inflight,     \* the requests being served: arguments, loaded shipment, position
    returned,     \* the request that returned last: arguments, result, Publish calls
    lost,         \* inserts into state_transitions that have failed so far
    bins,         \* bins table: device id -> fill_level
    handlers,     \* processBinStatus goroutines: report, position
    handled,      \* the processBinStatus call that returned last
    calls,        \* NotifyNearestDriver goroutines started and not yet run
    drivers,      \* drivers table: id -> is_available, location
    attempts,     \* sendFCMNotification goroutines of a broadcast, not yet run
    notified,     \* the NotificationService call or attempt that ended last
    down,         \* the backend process has died of an unrecovered panic
    routing,      \* the OptimizeRoute call being served: arguments, locals, position
    route         \* what the OptimizeRoute call served last returned, once it has

lifecycle == <<shipments, transitions, inflight, returned, lost>>
telemetry == <<bins, handlers, handled>>
dispatch == <<calls, drivers, attempts, notified, down>>
optimizer == <<routing, route>>

vars == <<lifecycle, telemetry, dispatch, optimizer>>

NoShipment == [status |-> NULL, driverId |-> NULL]

\* a request: its arguments, the *models.Shipment it works on (snap), the length of
\* the shipment's log when it was issued, and the line it has reached (pc)
Request(op, s, newStatus, by, role, sn, pc) ==
    [op |-> op, shipment |-> s, newStatus |-> newStatus, by |-> by, role |-> role,
     snap |-> sn, logLen |-> Len(transitions[s]), pc |-> pc]

NoReq == [op |-> NULL, shipment |-> 0, newStatus |-> NULL, by |-> NULL, role |-> NULL,
          snap |-> NoShipment, logLen |-> 0, pc |-> NULL]

NoReturn == [req |-> NoReq, result |-> NULL, failed |-> {}, published |-> <<>>]

\* a processBinStatus goroutine: the report it parsed, the fill level the bin's row
\* held before this report's UPDATE (empty until then, and when there is no row),
\* and the line it has reached
Handler(device, level, prev, pc) ==
    [device |-> device, level |-> level, prev |-> prev, pc |-> pc]

NoHandled == [device |-> NULL, level |-> 0, prev |-> {}, outcome |-> NULL, dispatches |-> 0]

NoNotified == [op |-> NULL, bin |-> NULL, query |-> NULL, driver |-> {}, result |-> NULL,
               sends |-> 0, undelivered |-> FALSE]

NoRouting == [pc |-> "idle"]

NoResponse == [error |-> FALSE, code |-> 0, parsable |-> FALSE, status |-> NULL,
               routes |-> 0, legs |-> <<>>]

NoRoute == [result |-> NULL, waypoints |-> <<>>, optimizeBy |-> NULL, binIDs |-> <<>>,
            bins |-> <<>>, driverLat |-> 0, driverLng |-> 0, googleKey |-> NULL,
            status |-> NULL, totalDistanceKm |-> 0, estimatedDurationMinutes |-> 0,
            called |-> FALSE, response |-> NoResponse]

\* no shipment, no request
LifecycleIdle ==
    /\ shipments = [s \in ShipmentIds |-> NoShipment]
    /\ transitions = [s \in ShipmentIds |-> <<>>]
    /\ inflight = EmptyBag
    /\ returned = NoReturn
    /\ lost = 0

\* every bin at the column default fill_level 0, no report being handled
TelemetryIdle ==
    /\ bins = [b \in RegisteredDevices |-> 0]
    /\ handlers = EmptyBag
    /\ handled = NoHandled

DispatchIdle ==
    /\ calls = EmptyBag
    /\ attempts = EmptyBag
    /\ notified = NoNotified
    /\ down = FALSE

OptimizerIdle ==
    /\ routing = NoRouting
    /\ route = NoRoute

Init ==
    /\ LifecycleIdle
    /\ TelemetryIdle
    /\ DispatchIdle
    /\ drivers = DefaultDrivers
    /\ OptimizerIdle

(* ------------------------- repository layer --------------------------- *)
\* a models.StateTransition as stored by the INSERT of TransitionRepository.Create
Row(from, to, by, role) ==
    [fromStatus |-> from, toStatus |-> to, triggeredBy |-> by, triggeredByRole |-> role]

\* mutant of TransitionRepositoryCreate: the insert replaces the newest row
TransitionRepositoryCreate_Overwrite(table, s, row) ==
    [table EXCEPT ![s] = IF @ = <<>> THEN <<row>> ELSE [@ EXCEPT ![Len(@)] = row]]

\* TransitionRepository.Create: INSERT INTO state_transitions
TransitionRepositoryCreate(table, s, row) ==
    [table EXCEPT ![s] = Append(@, row)]

\* ShipmentRepository.Create: INSERT INTO shipments, status as built by the service
ShipmentRepositoryCreate(table, s) ==
    [table EXCEPT ![s] = [status |-> StatusCreated, driverId |-> NULL]]

\* ShipmentRepository.GetByID: the row, nil when there is none
ShipmentRepositoryGetByID(table, s) == table[s]

\* ShipmentRepository.UpdateStatus: UPDATE shipments SET status = $1 WHERE id = $2
ShipmentRepositoryUpdateStatus(table, s, status) ==
    [table EXCEPT ![s] = IF @ = NoShipment THEN @ ELSE [@ EXCEPT !.status = status]]

\* mutant of ShipmentRepositoryAssignDriver: the UPDATE sets driver_id only
ShipmentRepositoryAssignDriver_DriverOnly(table, s, d) ==
    [table EXCEPT ![s] = IF @ = NoShipment THEN @ ELSE [@ EXCEPT !.driverId = d]]

\* ShipmentRepository.AssignDriver: UPDATE shipments SET driver_id, status WHERE id
ShipmentRepositoryAssignDriver(table, s, d) ==
    [table EXCEPT ![s] = IF @ = NoShipment THEN @
                         ELSE [@ EXCEPT !.driverId = d, !.status = StatusDriverAssigned]]

(* --------------------------- event bus -------------------------------- *)
\* ShipmentService.publishEvent: one Client.Publish call per event; `delivered`
\* is whether conn.Publish returned nil
publishEvent(topic, shipment, actor, delivered) ==
    << [topic |-> topic, shipment |-> shipment, actor |-> actor, delivered |-> delivered] >>

\* mutant of ReturnAfterPublish: a Publish error is returned to the caller
ReturnAfterPublish_Propagate(delivered) == IF delivered THEN "ok" ELSE "err"

\* what the operation returns once publishEvent came back: publishEvent has no
\* return value, its Publish error is only printed, and the caller returns nil
ReturnAfterPublish(delivered) == "ok"

(* --------------------------- request steps ---------------------------- *)
Requests == BagToSet(inflight)

\* request r gets a goroutine
Begin(r) ==
    /\ inflight' = inflight (+) SetToBag({r})
    /\ UNCHANGED returned

\* request r moves on to the line `label`
Goto(r, label) ==
    /\ inflight' = (inflight (-) SetToBag({r})) (+) SetToBag({[r EXCEPT !.pc = label]})
    /\ UNCHANGED returned

\* request r returns `result` to its caller
Return(r, result, deps, pub) ==
    returned' = [req |-> r, result |-> result, failed |-> deps, published |-> pub]

Finish(r, result, deps, pub) ==
    /\ inflight' = inflight (-) SetToBag({r})
    /\ Return(r, result, deps, pub)

InFlight(s) == {r \in Requests : r.shipment = s}

RECURSIVE RowCount(_)
RowCount(S) ==
    IF S = {} THEN 0
    ELSE LET s == CHOOSE x \in S : TRUE IN Len(transitions[s]) + RowCount(S \ {s})

\* requests are issued only while a goroutine is free and state_transitions has
\* room for their rows; a failed insert uses up the room of the row it lost
MayIssue(cap, goroutines) ==
    /\ BagCardinality(inflight) < goroutines
    /\ RowCount(ShipmentIds) + BagCardinality(inflight) + lost < cap

Insert(ok) == lost' = IF ok THEN lost ELSE lost + 1

\* uuid.New() of CreateShipment: an id no shipment row and no request holds
FreshIds == {s \in ShipmentIds : shipments[s] = NoShipment /\ InFlight(s) = {}}

BusFailure(ok) == IF ok THEN {} ELSE {"bus"}

----
\* CreateShipment, lines 36-70: build the shipment, shipmentRepo.Create
CreateShipment(u, oks, cap, goroutines) ==
    /\ MayIssue(cap, goroutines)
    /\ FreshIds # {}
    /\ LET id == CHOOSE s \in FreshIds : \A x \in FreshIds : s <= x
           r == Request("create", id, StatusCreated, u, "user",
                        [status |-> StatusCreated, driverId |-> NULL], "c_record")
       IN  \E ok \in oks :
             IF ok
             THEN /\ shipments' = ShipmentRepositoryCreate(shipments, id)
                  /\ Begin(r)
             ELSE /\ Return(r, "err", {"status"}, <<>>)
                  /\ UNCHANGED <<shipments, inflight>>
    /\ UNCHANGED <<transitions, lost>>
    /\ UNCHANGED <<telemetry, dispatch, optimizer>>

\* CreateShipment, lines 72-90: the initial transition, whose insert error is
\* dropped; then publish shipment.created and return the shipment
CreateRecord(oks) ==
    \E r \in Requests :
        /\ r.pc = "c_record"
        /\ \E ins \in oks, ok \in oks :
             /\ Insert(ins)
             /\ transitions' =
                  IF ins
                  THEN TransitionRepositoryCreate(transitions, r.shipment,
                           Row(NULL, StatusCreated, r.by, "user"))
                  ELSE transitions
             /\ Finish(r, ReturnAfterPublish(ok),
                       (IF ins THEN {} ELSE {"audit"}) \cup BusFailure(ok),
                       publishEvent(TopicShipmentCreated, r.shipment, r.by, ok))
        /\ UNCHANGED shipments
        /\ UNCHANGED <<telemetry, dispatch, optimizer>>

----
\* AssignDriver, lines 100-111: shipmentRepo.GetByID with its error and not-found
\* exits, then the check against the loaded copy
AssignDriverLoad(s, d, oks, cap, goroutines) ==
    /\ MayIssue(cap, goroutines)
    /\ \E ok \in oks :
         LET sn == IF ok THEN ShipmentRepositoryGetByID(shipments, s) ELSE NoShipment
             r == Request("assign", s, StatusDriverAssigned, d, "driver", sn, "a_update")
         IN  IF ~ok
             THEN Return(r, "err", {"load"}, <<>>) /\ UNCHANGED inflight
             ELSE IF sn = NoShipment
             THEN Return(r, "notfound", {}, <<>>) /\ UNCHANGED inflight
             ELSE IF ~CanTransitionTo(sn.status, StatusDriverAssigned)
             THEN Return(r, "invalid", {}, <<>>) /\ UNCHANGED inflight
             ELSE Begin(r)
    /\ UNCHANGED <<shipments, transitions, lost>>
    /\ UNCHANGED <<telemetry, dispatch, optimizer>>

\* AssignDriver, lines 113-116: shipmentRepo.AssignDriver
AssignDriverUpdate(oks) ==
    \E r \in Requests :
        /\ r.pc = "a_update"
        /\ \E ok \in oks :
             IF ok
             THEN /\ shipments' = ShipmentRepositoryAssignDriver(shipments, r.shipment, r.by)
                  /\ Goto(r, "a_record")
             ELSE /\ Finish(r, "err", {"status"}, <<>>)
                  /\ UNCHANGED shipments
        /\ UNCHANGED <<transitions, lost>>
        /\ UNCHANGED <<telemetry, dispatch, optimizer>>

\* AssignDriver, lines 118-138: the transition row, whose insert error is discarded;
\* then publish shipment.driver.assigned and return nil
AssignDriverRecord(oks) ==
    \E r \in Requests :
        /\ r.pc = "a_record"
        /\ \E ins \in oks, ok \in oks :
             /\ Insert(ins)
             /\ transitions' =
                  IF ins
                  THEN TransitionRepositoryCreate(transitions, r.shipment,
                           Row(r.snap.status, StatusDriverAssigned, r.by, "driver"))
                  ELSE transitions
             /\ Finish(r, ReturnAfterPublish(ok),
                       (IF ins THEN {} ELSE {"audit"}) \cup BusFailure(ok),
                       publishEvent(TopicDriverAssigned, r.shipment, r.by, ok))
        /\ UNCHANGED shipments
        /\ UNCHANGED <<telemetry, dispatch, optimizer>>

----
\* the caller of updateStatusAndRecord (ConfirmPrice, ConfirmPickup, ConfirmDelivery,
\* RaiseDispute, ResolveDispute, Cancel) loads the shipment it passes in
LoadShipment(s, ok) == IF ok THEN ShipmentRepositoryGetByID(shipments, s) ELSE NoShipment

\* a transition request: the caller's load, then updateStatusAndRecord,
\* lines 151-154: the check against the copy passed in
TransitionLoad(s, newStatus, actor, oks, cap, goroutines) ==
    /\ MayIssue(cap, goroutines)
    /\ \E ok \in oks :
         LET sn == LoadShipment(s, ok)
             r == Request("transition", s, newStatus, actor.id, actor.role, sn, "t_update")
         IN  IF ~ok
             THEN Return(r, "err", {"load"}, <<>>) /\ UNCHANGED inflight
             ELSE IF sn = NoShipment
             THEN Return(r, "notfound", {}, <<>>) /\ UNCHANGED inflight
             ELSE IF ~CanTransitionTo(sn.status, newStatus)
             THEN Return(r, "invalid", {}, <<>>) /\ UNCHANGED inflight
             ELSE Begin(r)
    /\ UNCHANGED <<shipments, transitions, lost>>
    /\ UNCHANGED <<telemetry, dispatch, optimizer>>

\* updateStatusAndRecord, lines 156-159: shipmentRepo.UpdateStatus
TransitionUpdate(oks) ==
    \E r \in Requests :
        /\ r.pc = "t_update"
        /\ \E ok \in oks :
             IF ok
             THEN /\ shipments' = ShipmentRepositoryUpdateStatus(shipments, r.shipment,
                                                                 r.newStatus)
                  /\ Goto(r, "t_record")
             ELSE /\ Finish(r, "err", {"status"}, <<>>)
                  /\ UNCHANGED shipments
        /\ UNCHANGED <<transitions, lost>>
        /\ UNCHANGED <<telemetry, dispatch, optimizer>>

\* updateStatusAndRecord, lines 161-188: the transition row, whose insert error is
\* returned; else publish on the status' topic and return nil
TransitionRecord(oks) ==
    \E r \in Requests :
        /\ r.pc = "t_record"
        /\ \E ins \in oks : \E ok \in {b \in oks : ins \/ b} :
             /\ Insert(ins)
             /\ IF ins
                THEN /\ transitions' = TransitionRepositoryCreate(transitions, r.shipment,
                           Row(r.snap.status, r.newStatus, r.by, r.role))
                     /\ Finish(r, ReturnAfterPublish(ok), BusFailure(ok),
                               publishEvent(getTopicForStatus(r.newStatus), r.shipment,
                                            r.by, ok))
                ELSE /\ Finish(r, "err", {"audit"}, <<>>)
                     /\ UNCHANGED transitions
        /\ UNCHANGED shipments
        /\ UNCHANGED <<telemetry, dispatch, optimizer>>

----
\* any step of the service: a request is issued (oks is the set of outcomes its
\* dependencies may have, cap the room of state_transitions, goroutines the number
\* of requests served at a time), or a request in flight runs to its next call
Service(oks, cap, goroutines) ==
    \/ \E u \in Users : CreateShipment(u, oks, cap, goroutines)
    \/ CreateRecord(oks)
    \/ \E s \in ShipmentIds, d \in Drivers : AssignDriverLoad(s, d, oks, cap, goroutines)
    \/ AssignDriverUpdate(oks)
    \/ AssignDriverRecord(oks)
    \/ \E s \in ShipmentIds, t \in ShipmentStatus, a \in Actors :
          TransitionLoad(s, t, a, oks, cap, goroutines)
    \/ TransitionUpdate(oks)
    \/ TransitionRecord(oks)

\* concurrent requests; the database and the bus may fail at any call
Next == Service(BOOLEAN, MaxLog, MaxInFlight)

Spec == Init /\ [][Next]_vars

\* requests served one at a time against dependencies that do not fail
NextSeq == Service({TRUE}, MaxLogSeq, 1)

SpecSeq == Init /\ [][NextSeq]_vars

(* ------------------- telemetry intake: mqtt client -------------------- *)
\* NewClient: fillLevelThreshold
fillLevelThreshold == 90
\* the range processBinStatus accepts, and the CHECK constraint of bins.fill_level
MinFillLevel == 0
MaxFillLevel == 100

\* mutant of ValidFillLevel: only the upper end is checked
ValidFillLevel_UpperOnly(level) == level <= MaxFillLevel

\* processBinStatus: !(status.FillLevel < 0 || status.FillLevel > 100)
ValidFillLevel(level) == ~(level < MinFillLevel \/ level > MaxFillLevel)

\* mutant of ThresholdReached: strictly above the threshold
ThresholdReached_Strict(level) == level > fillLevelThreshold

\* processBinStatus: status.FillLevel >= c.fillLevelThreshold
ThresholdReached(level) == level >= fillLevelThreshold

\* CHECK (fill_level >= 0 AND fill_level <= 100) of the bins table
FillLevelCheck(level) == level >= MinFillLevel /\ level <= MaxFillLevel

\* BinRepository.UpdateFillLevel: UPDATE bins SET fill_level = $1 WHERE device_id = $2;
\* no row for the device is no error, and nothing is written
BinRepositoryUpdateFillLevel(table, deviceID, fillLevel) ==
    IF deviceID \in DOMAIN table THEN [table EXCEPT ![deviceID] = fillLevel] ELSE table

NoBin == [deviceId |-> NULL]

\* BinRepository.GetByDeviceID: the row, nil when there is none
BinRepositoryGetByDeviceID(table, deviceID) ==
    IF deviceID \in DOMAIN table
    THEN [deviceId |-> deviceID, fillLevel |-> table[deviceID],
          latitude |-> BinDirectory[deviceID].latitude,
          longitude |-> BinDirectory[deviceID].longitude,
          locationName |-> BinDirectory[deviceID].locationName]
    ELSE NoBin

\* mutant of BinFound: the nil check is left out
BinFound_ErrOnly(bin, ok) == ok

\* processBinStatus: !(err != nil || bin == nil) after GetByDeviceID
BinFound(bin, ok) == ok /\ bin # NoBin

\* the fill level a device's row holds, as a set: empty when it has no row
Stored(deviceID) == IF deviceID \in DOMAIN bins THEN {bins[deviceID]} ELSE {}

\* goroutines of the backend that are running
Goroutines == BagCardinality(handlers) + BagCardinality(calls) + BagCardinality(attempts)

\* processBinStatus returns
Handled(h, outcome, dispatches) ==
    /\ handlers' = handlers (-) SetToBag({h})
    /\ handled' = [device |-> h.device, level |-> h.level, prev |-> h.prev,
                   outcome |-> outcome, dispatches |-> dispatches]

\* a NotifyNearestDriver goroutine: the bin it was handed and whether the context
\* it was handed is still live when its query runs (the handler that started it
\* cancels that context when it returns, which may come first)
Call(deviceID, ctx) == [bin |-> deviceID, ctx |-> ctx]

----
\* binStatusHandler and processBinStatus, lines 109-132: a report arrives, its
\* goroutine is started, parses the payload and validates the fill level
binStatusHandler(deviceID, level, goroutines) ==
    /\ ~down
    /\ Goroutines < goroutines
    /\ IF ValidFillLevel(level)
       THEN /\ handlers' = handlers (+) SetToBag({Handler(deviceID, level, {}, "update")})
            /\ UNCHANGED handled
       ELSE /\ handled' = [device |-> deviceID, level |-> level, prev |-> {},
                          outcome |-> "invalid", dispatches |-> 0]
            /\ UNCHANGED handlers
    /\ UNCHANGED <<bins, lifecycle, dispatch, optimizer>>

\* processBinStatus, lines 134-141: binRepo.UpdateFillLevel, then the threshold test
processUpdate(oks) ==
    \E h \in BagToSet(handlers) :
        /\ ~down
        /\ h.pc = "update"
        /\ \E ok \in oks :
             IF ok /\ FillLevelCheck(h.level)
             THEN /\ bins' = BinRepositoryUpdateFillLevel(bins, h.device, h.level)
                  /\ IF ThresholdReached(h.level)
                     THEN /\ handlers' = (handlers (-) SetToBag({h})) (+)
                               SetToBag({Handler(h.device, h.level, Stored(h.device), "lookup")})
                          /\ UNCHANGED handled
                     ELSE Handled([h EXCEPT !.prev = Stored(h.device)], "done", 0)
             ELSE /\ Handled(h, "write_failed", 0)
                  /\ UNCHANGED bins
        /\ UNCHANGED <<lifecycle, dispatch, optimizer>>

\* processBinStatus, lines 145-155: binRepo.GetByDeviceID, go NotifyNearestDriver,
\* return (which runs the deferred cancel of the context just handed over)
processLookup(oks) ==
    \E h \in BagToSet(handlers) :
        /\ ~down
        /\ h.pc = "lookup"
        /\ \E ok \in oks, ctx \in {"live", "cancelled"} :
             LET bin == BinRepositoryGetByDeviceID(bins, h.device)
             IN  IF BinFound(bin, ok)
                 THEN /\ calls' = calls (+) SetToBag({Call(bin.deviceId, ctx)})
                      /\ Handled(h, "done", 1)
                 ELSE /\ Handled(h, IF ok THEN "no_bin" ELSE "lookup_failed", 0)
                      /\ UNCHANGED calls
        /\ UNCHANGED <<bins, drivers, attempts, notified, down, lifecycle, optimizer>>

(* ----------------- dispatch engine: NotificationService ---------------- *)
Abs(n) == IF n < 0 THEN 0 - n ELSE n

\* haversineDistance, and the great-circle expression of GetNearestDriver's query:
\* with every point on the equator, the distance in degrees of arc
haversineDistance(lat1, lng1, lat2, lng2) == Abs(lat2 - lat1) + Abs(lng2 - lng1)

\* WHERE is_available = true AND latitude IS NOT NULL AND longitude IS NOT NULL
Eligible(table) == {d \in DOMAIN table : table[d].isAvailable /\ table[d].location # {}}

\* the distance column of GetNearestDriver's query for driver d
DriverDistance(table, d, lat, lng) ==
    LET k == CHOOSE x \in table[d].location : TRUE IN haversineDistance(lat, lng, 0, k)

\* mutant of GetNearestDriver: the WHERE clause is left out
GetNearestDriver_Unfiltered(table, lat, lng) ==
    LET dist(d) == IF table[d].location = {} THEN 0 ELSE DriverDistance(table, d, lat, lng)
    IN  {d \in DOMAIN table : \A e \in DOMAIN table : dist(d) <= dist(e)}

\* DriverRepository.GetNearestDriver: ORDER BY distance ASC LIMIT 1 over the eligible
\* rows. The rows the query may return: which of several rows at the least distance
\* comes first is the database's choice; none when no row is eligible
GetNearestDriver(table, lat, lng) ==
    {d \in Eligible(table) :
        \A e \in Eligible(table) :
            DriverDistance(table, d, lat, lng) <= DriverDistance(table, e, lat, lng)}

\* DriverRepository.GetAvailableDrivers: WHERE is_available = true
GetAvailableDrivers(table) == {d \in DOMAIN table : table[d].isAvailable}

\* mutant of NoDriverOutcome: no driver is reported as an error
NoDriverOutcome_Error == "err"

\* NotifyNearestDriver, lines 227-230: driver == nil is logged and nil is returned
NoDriverOutcome == "none"

\* mutant of AfterSend: the error of the send is returned
AfterSend_Propagate(sent) == IF sent THEN "ok" ELSE "err"

\* NotifyNearestDriver, lines 248-256, and the goroutine of NotifyAllAvailableDrivers,
\* lines 325-327: the error of sendFCMNotification is logged and nothing else
AfterSend(sent) == "ok"

\* a NotificationService call, or one goroutine of a broadcast, ends
Notified(op, bin, query, driver, result, sends, undelivered) ==
    notified' = [op |-> op, bin |-> bin, query |-> query, driver |-> driver,
                 result |-> result, sends |-> sends, undelivered |-> undelivered]

----
\* part of processBinStatus, line 153, on its own: a dispatch is asked for a bin
RequestDispatch(deviceID, goroutines) ==
    /\ ~down
    /\ Goroutines < goroutines
    /\ \E ctx \in {"live", "cancelled"} : calls' = calls (+) SetToBag({Call(deviceID, ctx)})
    /\ UNCHANGED <<drivers, attempts, notified, down, lifecycle, telemetry, optimizer>>

\* NotifyNearestDriver: the query (which fails on a cancelled context), the nil
\* driver exit, the message (which dereferences bin.LocationName), the send.
\* sendFCMNotification as it stands returns nil; the send it stands for may fail
NotifyNearestDriver(oks) ==
    \E c \in BagToSet(calls) :
        /\ ~down
        /\ calls' = calls (-) SetToBag({c})
        /\ \E ok \in oks, sent \in oks :
             LET bin == BinDirectory[c.bin]
                 found == GetNearestDriver(drivers, bin.latitude, bin.longitude)
             IN  IF ~(ok /\ c.ctx = "live")
                 THEN /\ Notified("nearest", c.bin, "failed", {}, "err", 0, FALSE)
                      /\ UNCHANGED down
                 ELSE IF found = {}
                 THEN /\ Notified("nearest", c.bin, "ok", {}, NoDriverOutcome, 0, FALSE)
                      /\ UNCHANGED down
                 ELSE \E d \in found :
                        IF bin.locationName = NULL
                        THEN /\ Notified("nearest", c.bin, "ok", {d}, "panic", 0, FALSE)
                             /\ down' = TRUE
                        ELSE /\ Notified("nearest", c.bin, "ok", {d}, AfterSend(sent), 1, ~sent)
                             /\ UNCHANGED down
        /\ UNCHANGED <<drivers, attempts, lifecycle, telemetry, optimizer>>

\* NotifyAllAvailableDrivers: the query, then one goroutine per row, then return nil
NotifyAllAvailableDrivers(oks, goroutines) ==
    /\ ~down
    /\ Goroutines < goroutines
    /\ \E ok \in oks :
         IF ok
         THEN /\ attempts' = attempts (+)
                    SetToBag({[driver |-> d] : d \in GetAvailableDrivers(drivers)})
              /\ Notified("broadcast", NULL, "ok", GetAvailableDrivers(drivers), "ok", 0, FALSE)
         ELSE /\ Notified("broadcast", NULL, "failed", {}, "err", 0, FALSE)
              /\ UNCHANGED attempts
    /\ UNCHANGED <<calls, drivers, down, lifecycle, telemetry, optimizer>>

\* one goroutine of NotifyAllAvailableDrivers, lines 324-328: sendFCMNotification
notifyAttempt(oks) ==
    \E a \in BagToSet(attempts) :
        /\ ~down
        /\ attempts' = attempts (-) SetToBag({a})
        /\ \E sent \in oks : Notified("attempt", NULL, NULL, {a.driver}, AfterSend(sent), 1, ~sent)
        /\ UNCHANGED <<calls, drivers, down, lifecycle, telemetry, optimizer>>

----
\* telemetry intake and the dispatches it starts: reports for `devices` at `levels`,
\* handled by up to `goroutines` goroutines at a time, against a database whose
\* calls have the outcomes `oks`
Telemetry(devices, levels, oks, goroutines) ==
    \/ \E b \in devices, l \in levels : binStatusHandler(b, l, goroutines)
    \/ processUpdate(oks)
    \/ processLookup(oks)
    \/ NotifyNearestDriver(oks)

\* reports handled one at a time
NextTelemetry == Telemetry(ReportingDevices, ReportLevels, BOOLEAN, 1)

SpecTelemetry == Init /\ [][NextTelemetry]_vars

\* reports handled one at a time against a database that answers every call
NextTelemetryHealthy == Telemetry(ReportingDevices, ReportLevels, {TRUE}, 1)

SpecTelemetryHealthy == Init /\ [][NextTelemetryHealthy]_vars

\* rapid reports of one device, handled concurrently
RaceLevels == {85, 95}

NextTelemetryRace == Telemetry({"b1"}, RaceLevels, BOOLEAN, MaxHandlers)

SpecTelemetryRace == Init /\ [][NextTelemetryRace]_vars

\* the dispatch engine on its own, against every drivers table
InitDispatch ==
    /\ LifecycleIdle
    /\ TelemetryIdle
    /\ DispatchIdle
    /\ drivers \in [DriverIds -> DriverRows]
    /\ OptimizerIdle

NextDispatch ==
    \/ \E b \in RegisteredDevices : RequestDispatch(b, MaxCalls)
    \/ NotifyNearestDriver(BOOLEAN)
    \/ NotifyAllAvailableDrivers(BOOLEAN, MaxCalls)
    \/ notifyAttempt(BOOLEAN)

SpecDispatch == InitDispatch /\ [][NextDispatch]_vars

(* -------------------- route optimizer: RouteService -------------------- *)
\* BinRepository.GetByID for each id of the request, in order; ids without a row
\* are skipped (bins are identified by their device id here)
Resolve(binIDs) ==
    LET known == SelectSeq(binIDs, LAMBDA id : id \in DOMAIN bins)
    IN  [i \in 1..Len(known) |->
            [id |-> known[i], fillLevel |-> bins[known[i]],
             latitude |-> BinDirectory[known[i]].latitude,
             longitude |-> BinDirectory[known[i]].longitude]]

\* the models.Waypoint built from a bin
Waypoint(bin, order) ==
    [binId |-> bin.id, latitude |-> bin.latitude, longitude |-> bin.longitude,
     fillLevel |-> bin.fillLevel, order |-> order]

\* the less function optimizeByFillLevel hands to sort.Slice
FillLevelLess(a, b, driverLat, driverLng) ==
    IF a.fillLevel # b.fillLevel
    THEN a.fillLevel > b.fillLevel
    ELSE haversineDistance(driverLat, driverLng, a.latitude, a.longitude)
            < haversineDistance(driverLat, driverLng, b.latitude, b.longitude)

Front(q) == SubSeq(q, 1, Len(q) - 1)
Last(q) == q[Len(q)]

\* sort.Slice on a slice this short is an insertion sort: each element in turn is
\* swapped towards the front while it is less than its left neighbour
RECURSIVE SiftDown(_, _, _, _)
SiftDown(sorted, x, driverLat, driverLng) ==
    IF sorted # <<>> /\ FillLevelLess(x, Last(sorted), driverLat, driverLng)
    THEN Append(SiftDown(Front(sorted), x, driverLat, driverLng), Last(sorted))
    ELSE Append(sorted, x)

RECURSIVE sortSlice(_, _, _)
sortSlice(q, driverLat, driverLng) ==
    IF Len(q) <= 1 THEN q
    ELSE SiftDown(sortSlice(Front(q), driverLat, driverLng), Last(q), driverLat, driverLng)

\* mutant of optimizeByFillLevel: the bins are numbered in input order
optimizeByFillLevel_Unsorted(binList, driverLat, driverLng) ==
    [i \in 1..Len(binList) |-> Waypoint(binList[i], i)]

\* RouteService.optimizeByFillLevel
optimizeByFillLevel(binList, driverLat, driverLng) ==
    LET sorted == sortSlice(binList, driverLat, driverLng)
    IN  [i \in 1..Len(sorted) |-> Waypoint(sorted[i], i)]

\* mutant of NearestUnvisited: the visited map is not consulted
NearestUnvisited_Any(binList, visited, lat, lng) ==
    LET dist(i) == haversineDistance(lat, lng, binList[i].latitude, binList[i].longitude)
    IN  CHOOSE i \in 1..Len(binList) :
            \A j \in 1..Len(binList) : dist(i) < dist(j) \/ (dist(i) = dist(j) /\ i <= j)

\* mutant of NearestUnvisited: on equal distances the later bin is taken
NearestUnvisited_LastOnTie(binList, visited, lat, lng) ==
    LET open == {i \in 1..Len(binList) : binList[i].id \notin visited}
        dist(i) == haversineDistance(lat, lng, binList[i].latitude, binList[i].longitude)
    IN  IF open = {} THEN 0
        ELSE CHOOSE i \in open :
                \A j \in open : dist(i) < dist(j) \/ (dist(i) = dist(j) /\ i >= j)

\* optimizeByDistance, lines 117-129: the inner loop. The index of the first bin,
\* in input order, at the least distance from the current position among those
\* whose id is not yet visited; 0 when every id is visited (nearest stays nil)
NearestUnvisited(binList, visited, lat, lng) ==
    LET open == {i \in 1..Len(binList) : binList[i].id \notin visited}
        dist(i) == haversineDistance(lat, lng, binList[i].latitude, binList[i].longitude)
    IN  IF open = {} THEN 0
        ELSE CHOOSE i \in open :
                \A j \in open : dist(i) < dist(j) \/ (dist(i) = dist(j) /\ i <= j)

\* calculateRouteMetrics: the legs of the tour summed from the start, 30 km/h and
\* two minutes a stop. Distances are kept in thousandths of a kilometre
RECURSIVE TourLength(_, _, _)
TourLength(startLat, startLng, waypoints) ==
    IF waypoints = <<>> THEN 0
    ELSE haversineDistance(startLat, startLng, waypoints[1].latitude, waypoints[1].longitude)
            + TourLength(waypoints[1].latitude, waypoints[1].longitude, Tail(waypoints))

calculateRouteMetrics(startLat, startLng, waypoints) ==
    IF Len(waypoints) = 0 THEN [distance |-> 0, duration |-> 0]
    ELSE LET totalDistance == TourLength(startLat, startLng, waypoints)
         IN  [distance |-> totalDistance * 1000,
              duration |-> ((totalDistance * 60) \div 30) + Len(waypoints) * 2]

\* the answers http.Get may come back with: a transport error, or a response with
\* a status code and a body; the body is not JSON, or is a Directions answer with
\* a status field, no route or one route, and the legs of that route
Leg == [distance |-> 1500, duration |-> 90]

LegLists == UNION {[1..n -> {Leg}] : n \in 0..MaxLegs}

Responses ==
    {[NoResponse EXCEPT !.error = TRUE]}
    \cup {[error |-> FALSE, code |-> c, parsable |-> FALSE, status |-> NULL,
           routes |-> 0, legs |-> <<>>] : c \in {200, 500}}
    \cup {[error |-> FALSE, code |-> c, parsable |-> TRUE, status |-> st,
           routes |-> 0, legs |-> <<>>] : c \in {200, 500}, st \in {"OK", "REQUEST_DENIED"}}
    \cup {[error |-> FALSE, code |-> c, parsable |-> TRUE, status |-> st,
           routes |-> 1, legs |-> l] :
             c \in {200, 500}, st \in {"OK", "REQUEST_DENIED"}, l \in LegLists}

RECURSIVE SumLegs(_, _)
SumLegs(legs, field) ==
    IF legs = <<>> THEN 0 ELSE legs[1][field] + SumLegs(Tail(legs), field)

\* getGoogleMapsRoute, lines 250-281: the conditions under which no error is
\* returned. resp.StatusCode is not among them
DirectionsFound(response) ==
    /\ ~response.error
    /\ response.parsable
    /\ ~(response.status # "OK" \/ response.routes = 0)

\* getGoogleMapsRoute, lines 283-294: the legs of the first route summed, metres to
\* (thousandths of) kilometres and seconds to whole minutes
googleMapsRouteResult(response) ==
    [distance |-> SumLegs(response.legs, "distance"),
     duration |-> SumLegs(response.legs, "duration") \div 60]

\* what the routing service does with a request: it answers (in one of the ways of
\* Responses), or it accepts the connection and never sends anything
ServiceBehaviours == {"answers", "silent"}

\* OptimizeRoute returns; the request is kept with the result
RouteReturned(result, binList, waypoints, metrics, called, response) ==
    /\ route' = [result |-> result, waypoints |-> waypoints,
                 optimizeBy |-> routing.optimizeBy, binIDs |-> routing.binIDs,
                 bins |-> binList, driverLat |-> routing.driverLat,
                 driverLng |-> routing.driverLng, googleKey |-> routing.googleKey,
                 status |-> IF result = "ok" THEN "pending" ELSE NULL,
                 totalDistanceKm |-> metrics.distance,
                 estimatedDurationMinutes |-> metrics.duration,
                 called |-> called, response |-> response]
    /\ routing' = NoRouting

NoMetrics == [distance |-> 0, duration |-> 0]

\* mutant of Refined: on success the stops are taken over in the service's order
Refined_Reordered(draft, response) ==
    IF DirectionsFound(response)
    THEN [draft EXCEPT !.metrics = googleMapsRouteResult(response),
                       !.waypoints = [i \in 1..Len(@) |-> @[Len(@) + 1 - i]]]
    ELSE draft

\* OptimizeRoute, lines 83-90: what the answer of getGoogleMapsRoute does to the
\* route built before the call: an error is logged and nothing changes; a result
\* overwrites TotalDistanceKm and EstimatedDurationMinutes
Refined(draft, response) ==
    IF DirectionsFound(response)
    THEN [draft EXCEPT !.metrics = googleMapsRouteResult(response)]
    ELSE draft

\* OptimizeRoute, lines 63-82: the metrics of the heuristic and the route built
\* from them; returned as it is when no key is configured, else the external call
\* is made
BuildRoute(binList, waypoints) ==
    LET metrics == calculateRouteMetrics(routing.driverLat, routing.driverLng, waypoints)
    IN  IF routing.googleKey = ""
        THEN RouteReturned("ok", binList, waypoints, metrics, FALSE,
                           NoResponse)
        ELSE /\ \E service \in ServiceBehaviours :
                    routing' = [pc |-> "external", binIDs |-> routing.binIDs,
                                optimizeBy |-> routing.optimizeBy,
                                driverLat |-> routing.driverLat,
                                driverLng |-> routing.driverLng,
                                googleKey |-> routing.googleKey, bins |-> binList,
                                waypoints |-> waypoints, metrics |-> metrics,
                                service |-> service]
             /\ UNCHANGED route

----
\* OptimizeRoute, lines 36-61: resolve the bins one lookup after the other (any of
\* them may fail, which ends the call), fail when none is left, choose the
\* strategy. The fill_level strategy goes on to the metrics at once; the distance
\* strategy (the default branch as well) enters the nearest-neighbour loop
OptimizeRoute(oks) ==
    /\ routing.pc = "request"
    /\ \E ok \in oks, k \in 0..Len(routing.binIDs) :
         /\ ok <=> k = 0
         /\ LET binList == Resolve(routing.binIDs)
            IN  IF ~ok
                THEN RouteReturned("err", Resolve(SubSeq(routing.binIDs, 1, k - 1)),
                                   <<>>, NoMetrics, FALSE, NoResponse)
                ELSE IF Len(binList) = 0
                THEN RouteReturned("no_valid_bins", binList, <<>>, NoMetrics, FALSE,
                                   NoResponse)
                ELSE IF routing.optimizeBy = "fill_level"
                THEN BuildRoute(binList,
                                optimizeByFillLevel(binList, routing.driverLat,
                                                    routing.driverLng))
                ELSE /\ routing' = [pc |-> "nearest", binIDs |-> routing.binIDs,
                                    optimizeBy |-> routing.optimizeBy,
                                    driverLat |-> routing.driverLat,
                                    driverLng |-> routing.driverLng,
                                    googleKey |-> routing.googleKey,
                                    bins |-> binList, waypoints |-> <<>>,
                                    visited |-> {},
                                    currentLat |-> routing.driverLat,
                                    currentLng |-> routing.driverLng]
                     /\ UNCHANGED route
    /\ UNCHANGED <<lifecycle, telemetry, dispatch>>

\* optimizeByDistance, lines 116-145: one pass of the outer loop, or its exit
optimizeByDistance ==
    /\ routing.pc = "nearest"
    /\ IF Len(routing.waypoints) < Len(routing.bins)
       THEN LET i == NearestUnvisited(routing.bins, routing.visited,
                                      routing.currentLat, routing.currentLng)
            IN  /\ routing' =
                     IF i = 0 THEN routing
                     ELSE [routing EXCEPT
                             !.visited = @ \cup {routing.bins[i].id},
                             !.waypoints = Append(@, Waypoint(routing.bins[i], Len(@) + 1)),
                             !.currentLat = routing.bins[i].latitude,
                             !.currentLng = routing.bins[i].longitude]
                /\ UNCHANGED route
       ELSE BuildRoute(routing.bins, routing.waypoints)
    /\ UNCHANGED <<lifecycle, telemetry, dispatch>>

\* getGoogleMapsRoute and OptimizeRoute, lines 82-92: http.Get comes back; on an
\* error the heuristic's metrics stay, else they are overwritten; the route is
\* returned. http.Get is called on the default client, which has no timeout, and
\* without the caller's context: nothing but an answer ends the wait
getGoogleMapsRoute(responses) ==
    /\ routing.pc = "external"
    /\ routing.service = "answers"
    /\ \E response \in responses :
         LET refined == Refined(routing, response)
         IN  RouteReturned("ok", refined.bins, refined.waypoints, refined.metrics,
                           TRUE, response)
    /\ UNCHANGED <<lifecycle, telemetry, dispatch>>

\* bin id lists of a request
RECURSIVE SeqsUpTo(_, _)
SeqsUpTo(S, n) ==
    IF n = 0 THEN {<<>>}
    ELSE LET shorter == SeqsUpTo(S, n - 1)
         IN  shorter \cup {Append(q, x) : q \in shorter, x \in S}

\* whether a Maps API key is configured
GoogleKeys == {"", "key"}

\* the arguments of an OptimizeRoute call that GetRoutes is about to make
RouteRequests ==
    [pc : {"request"}, driverLat : {0}, driverLng : StartLongitudes,
     binIDs : SeqsUpTo(Devices, MaxStops), optimizeBy : Strategies,
     googleKey : GoogleKeys]

\* one route request, against every assignment of fill levels to the bins
InitRoute ==
    /\ LifecycleIdle
    /\ bins \in [RegisteredDevices -> RouteLevels]
    /\ handlers = EmptyBag
    /\ handled = NoHandled
    /\ DispatchIdle
    /\ drivers = DefaultDrivers
    /\ routing \in RouteRequests
    /\ route = NoRoute

NextRoute ==
    \/ OptimizeRoute(BOOLEAN)
    \/ optimizeByDistance
    \/ getGoogleMapsRoute(Responses)

SpecRoute == InitRoute /\ [][NextRoute]_vars

\* the same, where the nearest-neighbour loop keeps running while it can take a
\* step and an answer of the routing service that has arrived is handled
SpecRouteFair ==
    /\ SpecRoute
    /\ WF_vars(optimizeByDistance)
    /\ WF_vars(getGoogleMapsRoute(Responses))

(* ===================== properties of the lifecycle ==================== *)
\* the adjacency table of the lifecycle, as sets of successors
AdjacencyTable ==
    [s \in ShipmentStatus |->
        CASE s = StatusCreated -> {StatusPriceConfirmed, StatusCancelled}
          [] s = StatusPriceConfirmed -> {StatusDriverAssigned, StatusCancelled}
          [] s = StatusDriverAssigned -> {StatusPickupStarted, StatusDisputed, StatusCancelled}
          [] s = StatusPickupStarted -> {StatusInTransit, StatusDisputed}
          [] s = StatusInTransit -> {StatusDelivered, StatusDisputed}
          [] s = StatusDelivered -> {StatusCompleted, StatusDisputed}
          [] s = StatusDisputed -> {StatusResolved}
          [] s = StatusResolved -> {StatusCompleted}
          [] OTHER -> {}]

Terminal == {StatusCancelled, StatusCompleted}

\* the request has written the shipment's status and not yet returned
Committed(r) == r.pc \in {"a_record", "t_record"}

IsTransitionOp(r) == r.op \in {"assign", "transition"}

\* the request that returned last had loaded a shipment and asked for a status
\* that is not a successor of the status it loaded
ReturnedOffTable ==
    /\ IsTransitionOp(returned.req)
    /\ returned.req.snap # NoShipment
    /\ returned.req.newStatus \notin AdjacencyTable[returned.req.snap.status]

IsPrefix(a, b) == Len(a) <= Len(b) /\ SubSeq(b, 1, Len(a)) = a

----
\* C1: no two requests on one shipment that observed the same current status
\* have both committed their status write (validate, persist and append are atomic
\* per shipment).
C1_NoTwoCommitsOnOneObservedStatus ==
    \A r1, r2 \in Requests :
        ( /\ Committed(r1) /\ Committed(r2)
          /\ r1.shipment = r2.shipment
          /\ r1.snap.status = r2.snap.status )
        => (r1 = r2 /\ CopiesIn(r1, inflight) = 1)

\* C2: whenever no operation on a shipment is in progress, its stored status is the
\* toStatus of the row appended last to its log.
C2_StatusIsLatestToStatus ==
    \A s \in ShipmentIds :
        (shipments[s] # NoShipment /\ InFlight(s) = {})
        => ( /\ transitions[s] # <<>>
             /\ transitions[s][Len(transitions[s])].toStatus = shipments[s].status )

\* C3: a transition request (AssignDriver or the generic path) for a status that is
\* not a successor of the status it loaded is answered "invalid", never gets past
\* the check, publishes nothing, and its step leaves the shipments table (status,
\* driver id) and the transition log as they were.
C3_RejectedState ==
    /\ ReturnedOffTable =>
          /\ returned.result = "invalid"
          /\ returned.published = <<>>
          /\ returned.failed = {}
    /\ \A r \in Requests :
          IsTransitionOp(r) => r.newStatus \in AdjacencyTable[r.snap.status]

C3_RejectedStep ==
    (inflight' = inflight /\ returned'.result = "invalid")
    => UNCHANGED <<shipments, transitions, lost>>

C3_InvalidTransitionRejected == []C3_RejectedState /\ [][C3_RejectedStep]_vars

C3_Witness ==
    /\ returned.result = "invalid"
    /\ returned.req.op = "transition"
    /\ returned.req.snap.status = StatusPriceConfirmed
    /\ returned.req.newStatus = StatusPickupStarted
    /\ shipments[returned.req.shipment].status = StatusPriceConfirmed

\* C4: CanTransitionTo(s, t) is true exactly when t is listed for s in the adjacency
\* table (direct membership, no transitive reachability), for all ten statuses, and
\* every served request is let through or rejected accordingly.
C4_CanTransitionToIsTable ==
    /\ \A s \in ShipmentStatus, t \in ShipmentStatus :
          CanTransitionTo(s, t) <=> t \in AdjacencyTable[s]
    /\ (IsTransitionOp(returned.req) /\ returned.req.snap # NoShipment)
          => ( returned.result = "ok"
               <=> returned.req.newStatus \in AdjacencyTable[returned.req.snap.status] )

C4_Witness ==
    /\ returned.req.op = "transition"
    /\ returned.req.snap.status = StatusDisputed
    /\ returned.req.newStatus = StatusCompleted
    /\ returned.result = "invalid"

\* C5: once a shipment's stored status is cancelled or completed, no step changes it.
C5_TerminalStays ==
    [][\A s \in ShipmentIds :
          shipments[s].status \in Terminal => shipments'[s].status = shipments[s].status]_vars

\* C6: a transition operation whose status write or transition insert failed does
\* not report success.
C6_WriteFailureSurfaced ==
    (IsTransitionOp(returned.req) /\ returned.result = "ok")
    => returned.failed \cap {"status", "audit"} = {}

\* C7: with requests served one at a time and no failing dependency, an assign-driver
\* request on a shipment still in created is rejected and changes nothing; one on a
\* shipment in price_confirmed (so after a confirm-price) succeeds, leaves the status
\* driver_assigned and exactly one new row, price_confirmed -> driver_assigned.
C7_AssignDriverScenario ==
    (returned.req.op = "assign" /\ inflight = EmptyBag) =>
        LET r == returned.req
            log == transitions[r.shipment]
        IN  /\ r.snap.status = StatusCreated =>
                /\ returned.result = "invalid"
                /\ shipments[r.shipment] = [status |-> StatusCreated, driverId |-> NULL]
                /\ Len(log) = r.logLen
            /\ r.snap.status = StatusPriceConfirmed =>
                /\ returned.result = "ok"
                /\ shipments[r.shipment] =
                      [status |-> StatusDriverAssigned, driverId |-> r.by]
                /\ Len(log) = r.logLen + 1
                /\ log[Len(log)] =
                      Row(StatusPriceConfirmed, StatusDriverAssigned, r.by, "driver")
                /\ \E i \in 1..r.logLen : log[i].toStatus = StatusPriceConfirmed
            /\ returned.result = "ok" => r.snap.status = StatusPriceConfirmed

C7_Witness ==
    /\ returned.req.op = "assign"
    /\ inflight = EmptyBag
    /\ returned.result = "ok"
    /\ returned.req.logLen = 2
    /\ Len(transitions[returned.req.shipment]) = 3

\* C8: a request whose Publish failed still returns success, made one Publish call
\* only, its row is in the log (unless the insert itself failed), and the step in
\* which it returns leaves the shipments table as it was.
C8_BusFailureState ==
    "bus" \in returned.failed =>
        LET r == returned.req
            log == transitions[r.shipment]
        IN  /\ returned.result = "ok"
            /\ Len(returned.published) = 1
            /\ ~returned.published[1].delivered
            /\ "audit" \notin returned.failed =>
                  \E i \in (r.logLen + 1)..Len(log) :
                      log[i] = Row(IF r.op = "create" THEN NULL ELSE r.snap.status,
                                   r.newStatus, r.by, r.role)

C8_BusFailureStep ==
    (BagCardinality(inflight') < BagCardinality(inflight) /\ "bus" \in returned'.failed)
    => shipments' = shipments

C8_PublishFailureNotFatal == []C8_BusFailureState /\ [][C8_BusFailureStep]_vars

C8_Witness ==
    /\ returned.failed = {"bus"}
    /\ returned.req.op = "transition"
    /\ returned.result = "ok"
    /\ shipments[returned.req.shipment].status = returned.req.newStatus

\* the topic named for each destination status
TopicNamedFor ==
    [s \in ShipmentStatus \ {StatusCreated} |->
        CASE s = StatusPriceConfirmed -> TopicPriceConfirmed
          [] s = StatusDriverAssigned -> TopicDriverAssigned
          [] s = StatusPickupStarted -> TopicPickupStarted
          [] s = StatusInTransit -> TopicInTransit
          [] s = StatusDelivered -> TopicDelivered
          [] s = StatusCompleted -> TopicCompleted
          [] s = StatusCancelled -> TopicCancelled
          [] s = StatusDisputed -> TopicDisputed
          [] s = StatusResolved -> TopicResolved]

\* C9: every successful transition made exactly one Publish call, on the topic named
\* for its destination status, carrying the shipment id and the actor's id; a
\* rejected transition made none.
C9_OneEventOnNamedTopic ==
    IsTransitionOp(returned.req) =>
        /\ returned.result = "ok" =>
              /\ Len(returned.published) = 1
              /\ returned.published[1].topic = TopicNamedFor[returned.req.newStatus]
              /\ returned.published[1].shipment = returned.req.shipment
              /\ returned.published[1].actor = returned.req.by
        /\ returned.result = "invalid" => returned.published = <<>>

\* C10: every step leaves each shipment's log as it was or extends it at the end.
C10_LogAppendOnly ==
    [][\A s \in ShipmentIds : IsPrefix(transitions[s], transitions'[s])]_vars

C10_Witness ==
    \E s \in ShipmentIds :
        /\ Len(transitions[s]) = 3
        /\ transitions[s][1].toStatus = StatusCreated
        /\ transitions[s][3].fromStatus # transitions[s][2].toStatus

(* ------------------ properties of the telemetry intake ----------------- *)
\* a report whose fill level lies outside 0..100
OutOfRange(level) == level < 0 \/ level > 100

\* the step in which a report is rejected by the validation of processBinStatus
Rejected == handled' # handled /\ handled'.outcome = "invalid"

\* C11: a report whose fill level is below 0 or above 100 is rejected as a
\* validation failure and nothing else happens to it: it never reaches the write
\* (no handler in flight carries such a level, and a report returned with such a
\* level was returned as invalid, with no dispatch), and the step that rejects it
\* leaves the stored level of every bin as it was (not clamped) and starts no
\* dispatch
C11_OutOfRangeRejected ==
    /\ [](/\ OutOfRange(handled.level) <=>
                (handled.outcome = "invalid")
          /\ handled.outcome = "invalid" => handled.dispatches = 0
          /\ \A h \in BagToSet(handlers) : ~OutOfRange(h.level))
    /\ [][Rejected => bins' = bins /\ calls' = calls /\ handlers' = handlers]_vars

\* a report of 101 for a bin holding 95 has been rejected, and the bin holds 95
C11_Witness ==
    /\ handled.outcome = "invalid"
    /\ handled.device = "b1"
    /\ handled.level = 101
    /\ bins["b1"] = 95

\* the processBinStatus goroutines in flight for a device
HandlersOf(deviceID) ==
    LET hs == {h \in BagToSet(handlers) : h.device = deviceID}
        RECURSIVE Count(_)
        Count(S) == IF S = {} THEN 0
                    ELSE LET h == CHOOSE x \in S : TRUE
                         IN  CopiesIn(h, handlers) + Count(S \ {h})
    IN  Count(hs)

\* C12: the handling of reports is serialized per device: at any time at most one
\* handler is in flight for a device, so that the writes of two reports of one
\* device cannot interleave and the later report's level is the one that stays
C12_OneHandlerPerDevice == \A b \in Devices : HandlersOf(b) <= 1

\* C13: a dispatch is decided once per rising edge: a report that was followed by a
\* dispatch found the bin's stored level below the threshold; a report for a bin
\* already at or above the threshold is followed by none
C13_DispatchOnRisingEdgeOnly ==
    handled.dispatches > 0 => \A prev \in handled.prev : prev < fillLevelThreshold

\* a processBinStatus goroutine that passed the validation returns in this step
HandlerReturns == BagCardinality(handlers') < BagCardinality(handlers)

Dropped == {"write_failed", "lookup_failed", "no_bin"}

\* C15: telemetry is best effort, without retry. When the write of the fill level
\* fails the handler returns in that step: the stored levels stay as they were, no
\* dispatch is started and no handler is started in its place. When, after a write
\* that succeeded, the lookup of the bin fails or finds no bin, the handler returns
\* in that step: no dispatch is started and no handler is started in its place.
\* A report for a device without a row never starts a dispatch
C15_FailuresDropTheReport ==
    /\ [](/\ handled.outcome \in Dropped => handled.dispatches = 0
          /\ handled.device \notin DOMAIN bins => handled.dispatches = 0)
    /\ [][(HandlerReturns /\ handled'.outcome \in Dropped) =>
             /\ bins' = bins
             /\ calls' = calls
             /\ BagCardinality(handlers') = BagCardinality(handlers) - 1
             /\ \A h \in BagToSet(handlers') :
                    CopiesIn(h, handlers') <= CopiesIn(h, handlers)]_vars

\* a report of 95 for the bin holding 85 was dropped because the write failed:
\* the bin holds 85 and no dispatch is under way
C15_Witness ==
    /\ handled.outcome = "write_failed"
    /\ handled.device = "b1"
    /\ handled.level = 95
    /\ bins["b1"] = 85
    /\ calls = EmptyBag
    /\ handlers = EmptyBag

(* ------------------ properties of the dispatch engine ------------------ *)
\* the distance from the bin of the last NotifyNearestDriver call to driver d
DistanceToBin(d) ==
    DriverDistance(drivers, d, BinDirectory[notified.bin].latitude,
                   BinDirectory[notified.bin].longitude)

\* C16: the driver NotifyNearestDriver selected for a bin (and notified, when it got
\* that far) is available and has a known location, and no other driver that is
\* available with a known location is strictly nearer to the bin; at most one driver
\* is selected; an unavailable driver, or one without a location, is never selected
C16_NearestEligibleDriver ==
    notified.op = "nearest" =>
        /\ Cardinality(notified.driver) <= 1
        /\ notified.sends > 0 => notified.driver # {}
        /\ \A d \in notified.driver :
              /\ drivers[d].isAvailable
              /\ drivers[d].location # {}
              /\ \A e \in DriverIds :
                    (drivers[e].isAvailable /\ drivers[e].location # {}) =>
                        ~(DistanceToBin(e) < DistanceToBin(d))

\* b1 lies at longitude 2; d1, at 1, is the nearer driver but is not available, and
\* d2, at 5, has been notified
C16_Witness ==
    /\ notified.op = "nearest"
    /\ notified.bin = "b1"
    /\ notified.sends = 1
    /\ notified.driver = {"d2"}
    /\ drivers["d1"] = [isAvailable |-> FALSE, location |-> {1}]
    /\ drivers["d2"] = [isAvailable |-> TRUE, location |-> {5}]

\* a NotifyNearestDriver call returns in this step
NearestReturns == BagCardinality(calls') < BagCardinality(calls)

\* C17: when no driver is eligible (none is available with a known location) and
\* the directory query went through, NotifyNearestDriver returns the `no driver`
\* outcome, which is not an error, and emits no notification; when the query fails
\* it returns an error and emits no notification. In both cases the call is over:
\* it is not started again and no notification attempt is left running
C17_NoDriverOrQueryFailure ==
    /\ [](notified.op = "nearest" =>
            /\ (notified.query = "ok" /\ Eligible(drivers) = {}) =>
                   /\ notified.result = "none"
                   /\ notified.sends = 0
                   /\ notified.driver = {}
            /\ notified.query = "failed" =>
                   /\ notified.result = "err"
                   /\ notified.sends = 0
                   /\ notified.driver = {}
            /\ notified.result = "none" => Eligible(drivers) = {})
    /\ [][NearestReturns =>
             /\ BagCardinality(calls') = BagCardinality(calls) - 1
             /\ \A c \in BagToSet(calls') : CopiesIn(c, calls') <= CopiesIn(c, calls)
             /\ attempts' = attempts]_vars

\* the only available driver has no location: the call for b1 went through its
\* query and returned the `no driver` outcome without a notification
C17_Witness ==
    /\ notified.op = "nearest"
    /\ notified.bin = "b1"
    /\ notified.query = "ok"
    /\ notified.result = "none"
    /\ notified.sends = 0
    /\ drivers["d1"] = [isAvailable |-> TRUE, location |-> {}]
    /\ drivers["d2"] = [isAvailable |-> FALSE, location |-> {1}]

\* NotifyAllAvailableDrivers starts its goroutines in this step
BroadcastStarts == BagCardinality(attempts') > BagCardinality(attempts)

\* one goroutine of a broadcast ends in this step
AttemptEnds == BagCardinality(attempts') < BagCardinality(attempts)

\* C18: the fan-out is independent per driver. NotifyAllAvailableDrivers starts
\* exactly one attempt for each available driver and none for another, and returns
\* no error whenever its query went through. An attempt that ends, delivered or
\* not, takes only itself away: every other attempt stays, and no error results.
\* For the nearest driver there is at most one attempt, and a delivery failure
\* leaves the call's result a success
C18_IndependentFanOut ==
    /\ [](/\ notified.sends <= 1
          /\ (notified.op = "nearest" /\ notified.undelivered) =>
                (notified.result = "ok" /\ notified.sends = 1)
          /\ notified.op = "attempt" => notified.result = "ok"
          /\ (notified.op = "broadcast" /\ notified.query = "ok") =>
                notified.result = "ok")
    /\ [][/\ BroadcastStarts =>
                /\ notified'.result = "ok"
                /\ \A d \in DriverIds :
                      CopiesIn([driver |-> d], attempts') =
                          CopiesIn([driver |-> d], attempts)
                              + (IF drivers[d].isAvailable THEN 1 ELSE 0)
          /\ AttemptEnds =>
                /\ notified'.op = "attempt"
                /\ notified'.sends = 1
                /\ \A d \in DriverIds :
                      CopiesIn([driver |-> d], attempts') =
                          CopiesIn([driver |-> d], attempts)
                              - (IF notified'.driver = {d} THEN 1 ELSE 0)]_vars

\* the attempt for d1 was not delivered; its result is no error and the attempt
\* for d2 is still to run
C18_Witness ==
    /\ notified.op = "attempt"
    /\ notified.driver = {"d1"}
    /\ notified.undelivered
    /\ notified.result = "ok"
    /\ attempts = SetToBag({[driver |-> "d2"]})

(* ------------------ properties of the route optimizer ------------------ *)
\* how many waypoints of the returned route stand for the bin with this id, and
\* how many entries of the resolved list do
Visits(id) == Cardinality({i \in 1..Len(route.waypoints) : route.waypoints[i].binId = id})
Entries(id) == Cardinality({i \in 1..Len(route.bins) : route.bins[i].id = id})

\* the returned route holds each resolved bin as often as the resolved list does,
\* with the bin's own position and fill level, and is numbered 1..n in tour order
VisitsEachResolvedBinOnce ==
    /\ Len(route.waypoints) = Len(route.bins)
    /\ \A id \in Devices : Visits(id) = Entries(id)
    /\ \A i \in 1..Len(route.waypoints) :
          /\ route.waypoints[i].order = i
          /\ \E k \in 1..Len(route.bins) :
                route.waypoints[i] = Waypoint(route.bins[k], i)

\* C19: a route returned by the distance strategy, which is also the strategy of a
\* name that is not recognised, visits every resolved input bin exactly once (n
\* waypoints for n resolved bins, none repeated, none missing), and the order
\* values of its waypoints are 1, 2, ..., n in tour order
C19_DistanceRouteVisitsEachBinOnce ==
    (route.result = "ok" /\ route.optimizeBy # "fill_level") =>
        /\ VisitsEachResolvedBinOnce
        /\ \A id \in Devices : Visits(id) <= 1

\* the strategy name "shortest" is not recognised; from longitude 4 the bins b1,
\* b2, b3 are visited in the order b3, b1, b2
C19_Witness ==
    /\ route.result = "ok"
    /\ route.optimizeBy = "shortest"
    /\ route.driverLng = 4
    /\ [i \in 1..Len(route.bins) |-> route.bins[i].id] = <<"b1", "b2", "b3">>
    /\ [i \in 1..Len(route.waypoints) |-> route.waypoints[i].binId] = <<"b3", "b1", "b2">>

\* the distance of a waypoint of the returned route from the start of the request
DistanceFromStart(w) ==
    haversineDistance(route.driverLat, route.driverLng, w.latitude, w.longitude)

\* C20: in a route returned by the fill_level strategy, of any two waypoints at
\* positions i < j either the one at i has the greater fill level, or the two have
\* the same fill level and the one at i is not farther from the driver's starting
\* location; the route holds every resolved bin exactly once, numbered 1..n
C20_FillLevelRouteOrdered ==
    (route.result = "ok" /\ route.optimizeBy = "fill_level") =>
        /\ VisitsEachResolvedBinOnce
        /\ \A i, j \in 1..Len(route.waypoints) :
              i < j =>
                 \/ route.waypoints[i].fillLevel > route.waypoints[j].fillLevel
                 \/ /\ route.waypoints[i].fillLevel = route.waypoints[j].fillLevel
                    /\ DistanceFromStart(route.waypoints[i])
                          <= DistanceFromStart(route.waypoints[j])

\* b1 holds 85, b2 and b3 hold 95; from longitude 0 the request for b1, b2, b3 is
\* answered with b3 (95, nearer), b2 (95), b1 (85)
C20_Witness ==
    /\ route.result = "ok"
    /\ route.optimizeBy = "fill_level"
    /\ route.driverLng = 0
    /\ bins = [b1 |-> 85, b2 |-> 95, b3 |-> 95]
    /\ [i \in 1..Len(route.bins) |-> route.bins[i].id] = <<"b1", "b2", "b3">>
    /\ [i \in 1..Len(route.waypoints) |-> route.waypoints[i].binId] = <<"b3", "b2", "b1">>

\* some bin id of the request has a row in the directory
SomeBinResolves == \E i \in 1..Len(route.binIDs) : route.binIDs[i] \in DOMAIN bins

\* C21: a bin id that does not resolve is skipped without failing the call: a call
\* that has returned produced a route when at least one of its bin ids resolves,
\* and failed with `no valid bins`, producing no route, when none does (the empty
\* list included); it failed in no other way
C21_UnresolvedBinsSkipped ==
    route.result # NULL =>
        IF SomeBinResolves
        THEN route.result = "ok" /\ route.waypoints # <<>>
        ELSE route.result = "no_valid_bins" /\ route.waypoints = <<>>

\* the external call failed in one of the ways the routing service can fail: no
\* answer, an HTTP status other than 200, a body that is not JSON, a status field
\* other than OK, or no route
CallFailed(response) ==
    \/ response.error
    \/ response.code # 200
    \/ ~response.parsable
    \/ response.status # "OK"
    \/ response.routes = 0

\* the metrics of the heuristic for the returned route
HeuristicMetrics ==
    calculateRouteMetrics(route.driverLat, route.driverLng, route.waypoints)

\* C22: when the routing API is configured and the external call fails in any way,
\* OptimizeRoute still returns a route, with no error, whose distance and duration
\* are exactly those of the heuristic
C22_FailedCallKeepsHeuristic ==
    route.called =>
        /\ route.result = "ok"
        /\ CallFailed(route.response) =>
              /\ route.totalDistanceKm = HeuristicMetrics.distance
              /\ route.estimatedDurationMinutes = HeuristicMetrics.duration

\* the waypoints the strategy of the call in progress has produced, when the call
\* is at the point of building its route
StrategyWaypoints ==
    IF routing.pc = "nearest" THEN routing.waypoints
    ELSE optimizeByFillLevel(Resolve(routing.binIDs), routing.driverLat, routing.driverLng)

\* the call in progress builds its route in this step: it returns it at once (no
\* key configured) or hands it to the external call
RouteBuilt ==
    /\ routing.pc \in {"request", "nearest"}
    /\ \/ routing'.pc = "external"
       \/ routing'.pc = "idle" /\ route'.result = "ok"

\* the external call of the call in progress ends in this step
ExternalEnds == routing.pc = "external" /\ routing'.pc = "idle"

\* C23: the external refinement changes the metrics and nothing else. The route
\* that is built carries the waypoints of the strategy (bin ids, order values, fill
\* levels) whether or not a key is configured; the step that ends the external
\* call returns those waypoints and the bins as they were before the call, with
\* status pending, whether the call failed or succeeded; on success the distance is
\* the metres of the legs summed, over 1000, and the duration the seconds of the
\* legs summed, over 60; otherwise both are the heuristic's
C23_RefinementChangesOnlyMetrics ==
    /\ [](route.result = "ok" => route.status = "pending")
    /\ [][/\ RouteBuilt =>
                (IF routing'.pc = "external" THEN routing'.waypoints
                 ELSE route'.waypoints) = StrategyWaypoints
          /\ ExternalEnds =>
                /\ route'.result = "ok"
                /\ route'.waypoints = routing.waypoints
                /\ route'.bins = routing.bins
                /\ route'.status = "pending"
                /\ IF DirectionsFound(route'.response)
                   THEN /\ route'.totalDistanceKm =
                              SumLegs(route'.response.legs, "distance")
                        /\ route'.estimatedDurationMinutes =
                              SumLegs(route'.response.legs, "duration") \div 60
                   ELSE /\ route'.totalDistanceKm = routing.metrics.distance
                        /\ route'.estimatedDurationMinutes = routing.metrics.duration]_vars

\* a route of three stops was refined by an answer with two legs of 1500 m and 90 s:
\* 3 km and 3 minutes, the three stops in the order b3, b1, b2 of the heuristic
C23_Witness ==
    /\ route.result = "ok"
    /\ route.called
    /\ route.response.code = 200
    /\ DirectionsFound(route.response)
    /\ Len(route.response.legs) = 2
    /\ route.totalDistanceKm = 3000
    /\ route.estimatedDurationMinutes = 3
    /\ route.status = "pending"
    /\ route.driverLng = 4
    /\ [i \in 1..Len(route.waypoints) |-> route.waypoints[i].binId] = <<"b3", "b1", "b2">>
    /\ [i \in 1..Len(route.waypoints) |-> route.waypoints[i].order] = <<1, 2, 3>>

\* C24: OptimizeRoute always eventually returns from its external call: the call
\* is bounded by a timeout and can be cancelled, so that when the routing service
\* never answers the call still ends and the route is returned
C24_ExternalCallEnds == (routing.pc = "external") ~> (routing.pc = "idle")

\* the position the tour of the returned route is at before its k-th waypoint
PositionBefore(k) ==
    IF k = 1 THEN [latitude |-> route.driverLat, longitude |-> route.driverLng]
    ELSE [latitude |-> route.waypoints[k - 1].latitude,
          longitude |-> route.waypoints[k - 1].longitude]

\* the entries of the resolved list that are not among the waypoints before the k-th
Remaining(k) ==
    {i \in 1..Len(route.bins) :
        \A j \in 1..(k - 1) : route.waypoints[j].binId # route.bins[i].id}

\* the distance from the position before the k-th waypoint to entry i
StepDistance(k, i) ==
    haversineDistance(PositionBefore(k).latitude, PositionBefore(k).longitude,
                      route.bins[i].latitude, route.bins[i].longitude)

C26_NearestNeighbourLoopEnds == (routing.pc = "nearest") ~> (routing.pc # "nearest")

\* C27: a dispatch started by a report that reached the threshold is not aborted
\* by the return of the handler that started it: with a database that answers
\* every call, the directory query of NotifyNearestDriver never fails
C27_DispatchOutlivesHandler == notified.op = "nearest" => notified.query = "ok"

\* C28: NotifyNearestDriver never faults while it builds the notification: for
\* every bin the directory can hold, a bin registered without a location name
\* included, a call that found an eligible driver ends with a result and not with a
\* runtime failure, and the backend stays up
C28_MessageBuiltWithoutFault ==
    /\ ~down
    /\ (notified.op = "nearest" /\ notified.driver # {}) => notified.result = "ok"

\* the transition log of shipment s is a chain that starts at creation and follows
\* the adjacency table
IsChain(log) ==
    /\ log # <<>> => (log[1].fromStatus = NULL /\ log[1].toStatus = StatusCreated)
    /\ \A i \in 2..Len(log) :
          /\ log[i].fromStatus = log[i - 1].toStatus
          /\ log[i].fromStatus \in DOMAIN AdjacencyTable
          /\ log[i].toStatus \in AdjacencyTable[log[i].fromStatus]

\* C29: the transition log of every shipment, in append order, is a chain: its
\* first record has no fromStatus and toStatus created, every later record starts
\* from the toStatus of the record appended just before it, and is an edge of the
\* adjacency table; under any interleaving of requests, and also when a status was
\* written and the append of its record failed
C29_LogIsChain == \A s \in ShipmentIds : IsChain(transitions[s])

\* C30: with requests on a shipment processed one at a time the lifecycle ends and
\* never loops: no status is held twice by a shipment (the records of its log lead
\* to pairwise different statuses), at most 8 transitions succeed after creation,
\* every status that is not terminal allows at least one transition, and from it
\* a terminal status (completed or cancelled) can be reached
C30_LifecycleEnds ==
    /\ \A s \in ShipmentIds :
          /\ \A i, j \in 1..Len(transitions[s]) :
                transitions[s][i].toStatus = transitions[s][j].toStatus => i = j
          /\ Len(transitions[s]) <= 1 + 8
    /\ \A st \in ShipmentStatus \ Terminal :
          /\ \E t \in ShipmentStatus : CanTransitionTo(st, t)
          /\ \E t \in Terminal : ReachableWithin(st, t, Cardinality(ShipmentStatus))

\* the longest path has been walked: eight transitions after creation, through
\* the dispute, to completed
C30_Witness ==
    /\ Len(transitions[1]) = 9
    /\ [i \in 1..9 |-> transitions[1][i].toStatus] =
          <<StatusCreated, StatusPriceConfirmed, StatusDriverAssigned, StatusPickupStarted,
            StatusInTransit, StatusDelivered, StatusDisputed, StatusResolved,
            StatusCompleted>>
    /\ shipments[1].status = StatusCompleted

====
